---- MODULE Spec2Model ----
(***************************************************************************)
(* The /plot request handler plot_site of main.py as a state machine: the  *)
(* fetch, the loader (parse, drop, sort), the seasonal segmentation, the   *)
(* flagging rules, the aggregation into FLAGGED, the plot and the render.  *)
(*                                                                         *)
(* Numbers.  Discharge values are integers; every statistic the code       *)
(* computes in floating point (percentile, quartiles, mean) is kept here   *)
(* as an exact scaled integer (100*P95, 4*Q1, 4*Q3, n*mean) and every      *)
(* comparison is made on the scaled values; the rounding of the floating-  *)
(* point computation is not modelled.  Timestamps are counted in whole     *)
(* months, so that Month(t) is the calendar month of t.                    *)
(***************************************************************************)
EXTENDS Integers, Sequences, FiniteSets, TLC

VARIABLES
    pc,               \* position in plot_site
    site_id,          \* request.args.get("id"): "None" or an id
    response,         \* what the fetch produced: "none", "exception", "invalid", "ok"
    data,             \* data["data"]: the raw record list
    df,               \* the DataFrame rows: Date, DISCHARGE (raw: the row's place in data)
    seasons,          \* the columns Season, Discharge_Irrigation, Discharge_NonIrrigation
    flags,            \* the flag columns present in df, by column name
    model_fit,        \* IsolationForest.fit_predict has been called
    plot_json,
    error_message,
    warning_message,
    nodata_message,
    status            \* HTTP status of the rendered answer, 0 before it

vars == <<pc, site_id, response, data, df, seasons, flags, model_fit,
          plot_json, error_message, warning_message, nodata_message, status>>

(***************************************************************************)
(* Bounds of the model.                                                    *)
(***************************************************************************)
MaxRaw == 3       \* longest raw record list the fetch returns
MaxObs == 5       \* longest loaded series the detectors are started on
MaxAnyOrder == 3  \* longest loaded series the detectors are run on in any order
MaxRawFail == 2   \* longest record list of the handler run with raised failures

None == "None"

(***************************************************************************)
(* Raw inputs: what the API's records can hold.                            *)
(***************************************************************************)
IsoDate(t) == [kind |-> "iso", t |-> t]
JunkDate == [kind |-> "junk", t |-> 0]
NumValue(v) == [kind |-> "num", v |-> v]
TextValue == [kind |-> "text", v |-> 0]
InfValue == [kind |-> "inf", v |-> 0]

DateInputs == {IsoDate(3), IsoDate(4), JunkDate}
ValueInputs == {NumValue(0 - 20), NumValue(0), NumValue(11), TextValue}
NonFiniteValueInputs == {NumValue(0), NumValue(11), TextValue, InfValue}
DischargeInputs == {0 - 20, 0, 1, 11}
AnyOrderInputs == {0 - 20, 0, 11}

RawRecords(dates, values) == [date : dates, value : values]

RawLists(records, maxlen) == UNION {[1..n -> records] : n \in 0..maxlen}

(***************************************************************************)
(* pd.to_datetime(errors='coerce') and pd.to_numeric(errors='coerce').     *)
(***************************************************************************)
to_datetime(x) ==
    IF x.kind = "iso" THEN [nat |-> FALSE, t |-> x.t] ELSE [nat |-> TRUE, t |-> 0]

to_numeric(x) ==
    CASE x.kind = "num" -> [kind |-> "fin", v |-> x.v]
      [] x.kind = "inf" -> [kind |-> "inf", v |-> 0]
      [] OTHER -> [kind |-> "nan", v |-> 0]

\* Series.isna / notna on a parsed cell: NaN and NaT are missing, infinity is not.
isna_number(x) == x.kind = "nan"

isna_date(d) == d.nat

\* line 99-103: the frame built from the records, both columns parsed.
ParsedFrame(records) ==
    [i \in 1..Len(records) |->
        [Date |-> to_datetime(records[i].date),
         DISCHARGE |-> to_numeric(records[i].value),
         raw |-> i]]

\* line 104: dropna(subset=['Date', 'DISCHARGE'])
KeepRow(r) == ~isna_date(r.Date) /\ ~isna_number(r.DISCHARGE)

dropna(frame) == SelectSeq(frame, KeepRow)

Perms(n) == {p \in [1..n -> 1..n] : \A i, j \in 1..n : i # j => p[i] # p[j]}

\* sort_values left out: the rows stay in the order of the raw input.
sort_values_unsorted(frame) == {frame}

\* line 104: sort_values(by='Date') with the default kind='quicksort', which is
\* not a stable sort: any ascending arrangement of the rows is a possible result.
sort_values(frame) ==
    {[i \in 1..Len(frame) |-> frame[p[i]]] :
        p \in {q \in Perms(Len(frame)) :
                 \A i, j \in 1..Len(frame) :
                     i < j => frame[q[i]].Date.t <= frame[q[j]].Date.t}}

\* line 95: `not data["data"]`
IsEmptyList(records) == Len(records) = 0

\* df.empty never true: the check of line 106 left out.
IsEmptyFrame_never(frame) == FALSE

\* line 106: df.empty
IsEmptyFrame(frame) == Len(frame) = 0

(***************************************************************************)
(* Columns and statistics.  d is the DISCHARGE column of the loaded frame. *)
(***************************************************************************)
Discharge(frame) == [i \in 1..Len(frame) |-> frame[i].DISCHARGE.v]

Abs(x) == IF x < 0 THEN 0 - x ELSE x

IsNonZero(x) == x # 0

\* The index of the rows selected by (DISCHARGE.notna()) & (DISCHARGE != 0).
NonZeroIndex(d) == SelectSeq([i \in 1..Len(d) |-> i], LAMBDA i : IsNonZero(d[i]))

\* line 125: non_zero_discharge
non_zero_discharge(d) ==
    LET index == NonZeroIndex(d) IN [k \in 1..Len(index) |-> d[index[k]]]

RECURSIVE SumSeq(_)
SumSeq(s) == IF Len(s) = 0 THEN 0 ELSE Head(s) + SumSeq(Tail(s))

RECURSIVE InsertSorted(_, _)
InsertSorted(x, s) ==
    IF Len(s) = 0 THEN <<x>>
    ELSE IF x <= Head(s) THEN <<x>> \o s
    ELSE <<Head(s)>> \o InsertSorted(x, Tail(s))

RECURSIVE SortAscending(_)
SortAscending(s) ==
    IF Len(s) = 0 THEN <<>> ELSE InsertSorted(Head(s), SortAscending(Tail(s)))

\* np.percentile / Series.quantile with linear interpolation, for the quantile
\* num/den of a non-empty sequence: the result times den.  The position is
\* num*(n-1)/den counted from 0; its whole part picks the lower order statistic
\* and its fraction (g/den) the weight of the step to the next one.
QuantileScaled(x, num, den) ==
    LET s == SortAscending(x)
        n == Len(s)
        pos == num * (n - 1)
        lo == 1 + (pos \div den)
        g == pos % den
        hi == IF lo < n THEN lo + 1 ELSE n
    IN  den * s[lo] + g * (s[hi] - s[lo])

\* line 127: discharge_95th_percentile, times 100
discharge_95th_percentile_x100(d) == QuantileScaled(non_zero_discharge(d), 95, 100)

\* line 129: Q1, Q3, IQR, each times 4
Q1_x4(d) == QuantileScaled(non_zero_discharge(d), 1, 4)

Q3_x4(d) == QuantileScaled(non_zero_discharge(d), 3, 4)

IQR_x4(d) == Q3_x4(d) - Q1_x4(d)

\* line 130: lower_bound = Q1 - 1.5*IQR and upper_bound = Q3 + 1.5*IQR, times 8
lower_bound_x8(d) == 2 * Q1_x4(d) - 3 * IQR_x4(d)

upper_bound_x8(d) == 2 * Q3_x4(d) + 3 * IQR_x4(d)

\* line 123
FLAG_NEGATIVE(d) == [i \in 1..Len(d) |-> d[i] < 0 /\ d[i] # 0]

\* line 124
FLAG_ZERO(d) == [i \in 1..Len(d) |-> d[i] = 0]

\* line 128
FLAG_Discharge(d) ==
    LET p95 == discharge_95th_percentile_x100(d)
    IN  [i \in 1..Len(d) |-> 100 * d[i] > p95 /\ d[i] # 0]

\* The fallback of line 131 flagging nothing when IQR is 0.
FLAG_IQR_no_fallback(d) ==
    LET lower == lower_bound_x8(d)
        upper == upper_bound_x8(d)
    IN  IF IQR_x4(d) > 0
        THEN [i \in 1..Len(d) |-> (8 * d[i] < lower \/ 8 * d[i] > upper) /\ d[i] # 0]
        ELSE [i \in 1..Len(d) |-> FALSE]

\* line 130-131
FLAG_IQR(d) ==
    LET lower == lower_bound_x8(d)
        upper == upper_bound_x8(d)
        q1 == Q1_x4(d)
    IN  IF IQR_x4(d) > 0
        THEN [i \in 1..Len(d) |-> (8 * d[i] < lower \/ 8 * d[i] > upper) /\ d[i] # 0]
        ELSE [i \in 1..Len(d) |-> 4 * d[i] # q1 /\ d[i] # 0]

\* The difference taken to the previous non-zero value (diff on the non-zero
\* subset) instead of the previous row.
RATE_OF_CHANGE_over_nonzero(d) ==
    [i \in 1..Len(d) |->
        LET earlier == {j \in 1..(i - 1) : d[j] # 0}
        IN  IF earlier = {} THEN [na |-> TRUE, v |-> 0]
            ELSE [na |-> FALSE,
                  v |-> Abs(d[i] - d[CHOOSE j \in earlier : \A k \in earlier : k <= j])]]

\* line 132: df['DISCHARGE'].diff().abs(): missing (NaN) on the first row.
RATE_OF_CHANGE(d) ==
    [i \in 1..Len(d) |->
        IF i = 1 THEN [na |-> TRUE, v |-> 0]
        ELSE [na |-> FALSE, v |-> Abs(d[i] - d[i - 1])]]

\* line 133
FLAG_RoC(d) ==
    LET p95 == discharge_95th_percentile_x100(d)
        roc == RATE_OF_CHANGE(d)
    IN  [i \in 1..Len(d) |-> ~roc[i].na /\ 100 * roc[i].v > p95 /\ d[i] # 0]

\* The test of line 133 never true (the name looked up is not the one assigned).
PercentileInLocals_never(f) == FALSE

\* line 133: 'discharge_95th_percentile' in locals().  The name is assigned on
\* line 127, in the step that writes FLAG_Discharge on line 128: it is a local
\* exactly when that column is in the frame f.
PercentileInLocals(f) == "FLAG_Discharge" \in DOMAIN f

\* lines 133-134: the rule of line 133 with the percentile of line 127, and
\* False for every row without it.
RateOfChangeColumn(f, d) ==
    IF PercentileInLocals(f) THEN FLAG_RoC(d) ELSE [i \in 1..Len(d) |-> FALSE]

\* line 136: groups = (s != s.shift()).cumsum() on the series s
GroupIds(s) ==
    [k \in 1..Len(s) |-> Cardinality({j \in 1..k : j = 1 \/ s[j] # s[j - 1]})]

\* line 136: s.groupby(groups).transform('size')
GroupSizes(s) ==
    LET groups == GroupIds(s)
    IN  [k \in 1..Len(s) |-> Cardinality({j \in 1..Len(s) : groups[j] = groups[k]})]

\* line 136: the series the groups are formed on, df.loc[non_zero_mask, 'DISCHARGE']
RunSeries(d) == non_zero_discharge(d)

\* line 135-136: False everywhere, then the rows of non_zero_mask set to
\* group_sizes >= 3 by index.
FLAG_REPEATED(d) ==
    LET index == NonZeroIndex(d)
        group_sizes == GroupSizes(RunSeries(d))
    IN  [i \in 1..Len(d) |->
            \E k \in 1..Len(index) : index[k] = i /\ group_sizes[k] >= 3]

\* line 138: df_clean['DISCHARGE'].nunique()
nunique(s) == Cardinality({s[k] : k \in 1..Len(s)})

\* line 138: whether the model is fitted
FitsModel(d) == Len(non_zero_discharge(d)) > 0 /\ nunique(non_zero_discharge(d)) > 1

\* line 138: IsolationForest(...).fit_predict is library code: any labelling of
\* the fitted values by 1 (inlier) or -1 (outlier), the same label for equal
\* values, is a possible result.
Predictions(d) == [{d[i] : i \in {j \in 1..Len(d) : d[j] # 0}} -> {1, 0 - 1}]

\* line 138: df['OUTLIER_IF'] = False, then the rows of df_clean set by index.
OUTLIER_IF(d, predict) ==
    [i \in 1..Len(d) |-> d[i] # 0 /\ predict[d[i]] = 0 - 1]

AllFalse(d) == [i \in 1..Len(d) |-> FALSE]

\* line 141: threshold
threshold == 1000

\* line 140-142: mean_discharge = sum/n; PERCENT_DEV = |x - mean| / mean * 100.
\* With S the sum and n the count of the non-zero values, PERCENT_DEV > threshold
\* is 100*|n*x - S| > threshold*S for S > 0, and is false for S < 0 (the quotient
\* is then not positive).
FLAG_RSD(d) ==
    LET S == SumSeq(non_zero_discharge(d))
        n == Len(non_zero_discharge(d))
    IN  IF S # 0
        THEN [i \in 1..Len(d) |->
                 S > 0 /\ 100 * Abs(n * d[i] - S) > threshold * S /\ d[i] # 0]
        ELSE AllFalse(d)

\* FLAG_RSD left out of the aggregated columns.
flag_cols_without_rsd ==
    <<"FLAG_NEGATIVE", "FLAG_ZERO", "FLAG_REPEATED", "FLAG_IQR", "OUTLIER_IF",
      "FLAG_Discharge", "FLAG_RoC">>

\* line 144: flag_cols_to_check
flag_cols_to_check ==
    <<"FLAG_NEGATIVE", "FLAG_ZERO", "FLAG_REPEATED", "FLAG_IQR", "OUTLIER_IF",
      "FLAG_Discharge", "FLAG_RoC", "FLAG_RSD">>

\* line 143: the columns the empty branch means to default
empty_branch_cols ==
    <<"FLAG_Discharge", "FLAG_IQR", "FLAG_RoC", "FLAG_REPEATED", "OUTLIER_IF", "FLAG_RSD">>

Range(s) == {s[k] : k \in 1..Len(s)}

\* df[name] = column
SetColumn(f, name, column) ==
    [c \in (DOMAIN f) \cup {name} |-> IF c = name THEN column ELSE f[c]]

\* df.update taken to add the column, all False (as df[col] = False would).
DataFrame_update_adds_default(f, col) ==
    [raised |-> FALSE,
     columns |-> [c \in (DOMAIN f) \cup {col} |->
                     IF c = col THEN [i \in 1..Len(f["FLAG_ZERO"]) |-> FALSE] ELSE f[c]]]

\* DataFrame.update({col: False}), lines 143 and 144: update builds
\* DataFrame({col: False}) from its argument, and pandas refuses a frame of
\* scalars without an index ("If using all scalar values, you must pass an
\* index"): the call raises ValueError and df is left as it was.
DataFrame_update(f, col) == [raised |-> TRUE, columns |-> f]

\* line 144: df[flag_cols_to_check].any(axis=1)
AnyAxis1(f, cols, n) ==
    [i \in 1..n |-> \E k \in 1..Len(cols) : f[cols[k]][i]]

(***************************************************************************)
(* Seasons, lines 116-119.                                                 *)
(***************************************************************************)
irrigation_months == {4, 5, 6, 7, 8, 9}

Month(t) == ((t - 1) % 12) + 1

Season(t) == IF Month(t) \in irrigation_months THEN "Irrigation" ELSE "Non-Irrigation"

NaNCell == [kind |-> "nan", v |-> 0]

SeasonColumns(frame) ==
    [i \in 1..Len(frame) |->
        [Season |-> Season(frame[i].Date.t),
         Discharge_Irrigation |->
             IF Season(frame[i].Date.t) = "Irrigation" THEN frame[i].DISCHARGE ELSE NaNCell,
         Discharge_NonIrrigation |->
             IF Season(frame[i].Date.t) = "Non-Irrigation" THEN frame[i].DISCHARGE ELSE NaNCell]]

(***************************************************************************)
(* The handler.  pc names the step that runs next.                         *)
(***************************************************************************)
SiteIds == {None, "10987"}

Init ==
    /\ pc = "start"
    /\ site_id \in SiteIds
    /\ response = "none"
    /\ data = <<>>
    /\ df = <<>>
    /\ seasons = <<>>
    /\ flags = <<>>
    /\ model_fit = FALSE
    /\ plot_json = None
    /\ error_message = None
    /\ warning_message = None
    /\ nodata_message = None
    /\ status = 0

\* return render_template_string(..., error=...), code: lines 72, 85, 90
ReturnError(message, code) ==
    /\ error_message' = message
    /\ status' = code
    /\ pc' = "done"

\* return render_template_string(..., nodata=...), 200: lines 97, 108
ReturnNoData(message) ==
    /\ nodata_message' = message
    /\ status' = 200
    /\ pc' = "done"

\* The handler of lines 240-242 passing over the exception without a message.
RaiseInProcessing_swallow(message) ==
    /\ pc' = "render"
    /\ UNCHANGED error_message

\* except Exception as e, lines 240-242: the message is set and the handler goes
\* on to the render of line 245.
RaiseInProcessing(message) ==
    /\ error_message' = message
    /\ pc' = "render"

\* lines 64-72
CheckSiteId ==
    /\ pc = "start"
    /\ IF site_id = None
       THEN /\ ReturnError("Missing 'id' parameter in query string.", 400)
            /\ UNCHANGED <<site_id, response, data, df, seasons, flags, model_fit,
                           plot_json, warning_message, nodata_message>>
       ELSE /\ pc' = "fetch"
            /\ UNCHANGED <<site_id, response, data, df, seasons, flags, model_fit,
                           plot_json, error_message, warning_message, nodata_message,
                           status>>

\* lines 76-90, the fetch, answering with a record list drawn from `lists`
FetchFrom(lists) ==
    /\ pc = "fetch"
    /\ \/ /\ response' = "exception"
          /\ ReturnError("Error fetching data", 500)
          /\ UNCHANGED <<data, nodata_message>>
       \/ /\ response' = "invalid"
          /\ ReturnError("API response 'data' field invalid or missing", 502)
          /\ UNCHANGED <<data, nodata_message>>
       \/ /\ response' = "ok"
          /\ data' \in lists
          /\ pc' = "load"
          /\ UNCHANGED <<error_message, nodata_message, status>>
    /\ UNCHANGED <<site_id, df, seasons, flags, model_fit, plot_json, warning_message>>

FetchData == FetchFrom(RawLists(RawRecords(DateInputs, ValueInputs), MaxRaw))

FetchNonFiniteData ==
    FetchFrom(RawLists(RawRecords(DateInputs, NonFiniteValueInputs), MaxRaw))

\* lines 95-108
LoadData ==
    /\ pc = "load"
    /\ IF IsEmptyList(data)
       THEN /\ ReturnNoData("No time series data returned from API")
            /\ UNCHANGED <<df, error_message>>
       ELSE \E sorted \in sort_values(dropna(ParsedFrame(data))) :
               /\ df' = sorted
               /\ IF IsEmptyFrame(sorted)
                  THEN /\ ReturnNoData("No valid, plottable data points found")
                       /\ UNCHANGED error_message
                  ELSE /\ pc' = "segment"
                       /\ UNCHANGED <<error_message, nodata_message, status>>
    /\ UNCHANGED <<site_id, response, data, seasons, flags, model_fit, plot_json,
                   warning_message>>

\* lines 116-119
SegmentSeasons ==
    /\ pc = "segment"
    /\ seasons' = SeasonColumns(df)
    /\ pc' = "sign_zero"
    /\ UNCHANGED <<site_id, response, data, df, flags, model_fit, plot_json,
                   error_message, warning_message, nodata_message, status>>

\* A detector step: it sets one flag column and goes on.
SetFlag(name, column, next) ==
    /\ flags' = SetColumn(flags, name, column)
    /\ pc' = next
    /\ UNCHANGED <<site_id, response, data, df, seasons, plot_json,
                   error_message, warning_message, nodata_message, status>>

\* lines 123-126
DetectNegativeZero ==
    /\ pc = "sign_zero"
    /\ flags' = SetColumn(SetColumn(flags, "FLAG_NEGATIVE", FLAG_NEGATIVE(Discharge(df))),
                          "FLAG_ZERO", FLAG_ZERO(Discharge(df)))
    /\ pc' = IF Len(non_zero_discharge(Discharge(df))) > 0 THEN "percentile" ELSE "default"
    /\ UNCHANGED <<site_id, response, data, df, seasons, model_fit, plot_json,
                   error_message, warning_message, nodata_message, status>>

\* lines 127-128
DetectPercentile ==
    /\ pc = "percentile"
    /\ SetFlag("FLAG_Discharge", FLAG_Discharge(Discharge(df)), "iqr")
    /\ UNCHANGED model_fit

\* lines 129-131
DetectIQR ==
    /\ pc = "iqr"
    /\ SetFlag("FLAG_IQR", FLAG_IQR(Discharge(df)), "roc")
    /\ UNCHANGED model_fit

\* lines 132-134
DetectRateOfChange ==
    /\ pc = "roc"
    /\ SetFlag("FLAG_RoC", RateOfChangeColumn(flags, Discharge(df)), "repeated")
    /\ UNCHANGED model_fit

\* lines 135-136
DetectRepeated ==
    /\ pc = "repeated"
    /\ SetFlag("FLAG_REPEATED", FLAG_REPEATED(Discharge(df)), "model")
    /\ UNCHANGED model_fit

\* lines 137-139
DetectModel ==
    /\ pc = "model"
    /\ IF FitsModel(Discharge(df))
       THEN \E predict \in Predictions(Discharge(df)) :
               /\ SetFlag("OUTLIER_IF", OUTLIER_IF(Discharge(df), predict), "rsd")
               /\ model_fit' = TRUE
       ELSE /\ SetFlag("OUTLIER_IF", AllFalse(Discharge(df)), "rsd")
            /\ UNCHANGED model_fit

\* lines 140-142
DetectRSD ==
    /\ pc = "rsd"
    /\ SetFlag("FLAG_RSD", FLAG_RSD(Discharge(df)), "aggregate")
    /\ UNCHANGED model_fit

\* The comprehensions of lines 143 and 144: df.update for each column in turn,
\* ended by the first call that raises.
RECURSIVE UpdateEach(_, _)
UpdateEach(f, cols) ==
    IF Len(cols) = 0 THEN [raised |-> FALSE, columns |-> f]
    ELSE LET r == DataFrame_update(f, Head(cols))
         IN  IF r.raised THEN r ELSE UpdateEach(r.columns, Tail(cols))

\* line 144: the columns of flag_cols_to_check that df lacks
MissingFlagColumns(f) == SelectSeq(flag_cols_to_check, LAMBDA c : c \notin DOMAIN f)

\* line 143, the branch of an empty non-zero subset
DefaultFlags ==
    /\ pc = "default"
    /\ LET r == UpdateEach(flags, empty_branch_cols)
       IN  IF r.raised
           THEN /\ RaiseInProcessing("An error occurred during data processing or plot generation")
                /\ UNCHANGED flags
           ELSE /\ flags' = r.columns
                /\ pc' = "aggregate"
                /\ UNCHANGED error_message
    /\ UNCHANGED <<site_id, response, data, df, seasons, model_fit, plot_json,
                   warning_message, nodata_message, status>>

\* line 144: the columns df lacks go through df.update; indexing df by a column
\* it still lacks raises KeyError; otherwise FLAGGED is the row-wise any().
Aggregate ==
    /\ pc = "aggregate"
    /\ LET r == UpdateEach(flags, MissingFlagColumns(flags))
       IN  IF r.raised \/ Len(MissingFlagColumns(r.columns)) > 0
           THEN /\ RaiseInProcessing("An error occurred during data processing or plot generation")
                /\ UNCHANGED flags
           ELSE /\ flags' = SetColumn(r.columns, "FLAGGED",
                                      AnyAxis1(r.columns, flag_cols_to_check, Len(df)))
                /\ pc' = "plot"
                /\ UNCHANGED error_message
    /\ UNCHANGED <<site_id, response, data, df, seasons, model_fit, plot_json,
                   warning_message, nodata_message, status>>

\* lines 146-238
BuildPlot ==
    /\ pc = "plot"
    /\ plot_json' = "fig"
    /\ pc' = "render"
    /\ UNCHANGED <<site_id, response, data, df, seasons, flags, model_fit,
                   error_message, warning_message, nodata_message, status>>

\* line 245
Render ==
    /\ pc = "render"
    /\ status' = 200
    /\ pc' = "done"
    /\ UNCHANGED <<site_id, response, data, df, seasons, flags, model_fit, plot_json,
                   error_message, warning_message, nodata_message>>

Process ==
    \/ SegmentSeasons
    \/ DetectNegativeZero
    \/ DetectPercentile
    \/ DetectIQR
    \/ DetectRateOfChange
    \/ DetectRepeated
    \/ DetectModel
    \/ DetectRSD
    \/ DefaultFlags
    \/ Aggregate
    \/ BuildPlot
    \/ Render

Next == CheckSiteId \/ FetchData \/ LoadData \/ Process

Spec == Init /\ [][Next]_vars

(***************************************************************************)
(* The loader alone, on record lists that also hold non-finite values.     *)
(* The rules of the detectors are modelled for finite numbers, so this     *)
(* specification ends where the loader does.                               *)
(***************************************************************************)
NextNonFinite == CheckSiteId \/ FetchNonFiniteData \/ LoadData

SpecNonFinite == Init /\ [][NextNonFinite]_vars

(***************************************************************************)
(* The steps after the loader, started on every loaded series of up to     *)
(* MaxObs finite values with ascending, distinct timestamps.               *)
(***************************************************************************)
LoadedRecords(ds) ==
    [i \in 1..Len(ds) |-> [date |-> IsoDate(2 + i), value |-> NumValue(ds[i])]]

InitLoaded ==
    /\ pc = "segment"
    /\ site_id = "10987"
    /\ response = "ok"
    /\ \E n \in 1..MaxObs : \E ds \in [1..n -> DischargeInputs] :
          /\ data = LoadedRecords(ds)
          /\ df = dropna(ParsedFrame(LoadedRecords(ds)))
    /\ seasons = <<>>
    /\ flags = <<>>
    /\ model_fit = FALSE
    /\ plot_json = None
    /\ error_message = None
    /\ warning_message = None
    /\ nodata_message = None
    /\ status = 0

NextLoaded == Process

SpecDetect == InitLoaded /\ [][NextLoaded]_vars

(***************************************************************************)
(* The same steps with the detectors and the segmenter run in any order    *)
(* (the design lets them be evaluated in any order or in parallel, the     *)
(* aggregation waiting for all of them): each step is the code of its      *)
(* lines, run once, whatever ran before it.                                *)
(***************************************************************************)
InitAnyOrder ==
    /\ pc = "detectors"
    /\ site_id = "10987"
    /\ response = "ok"
    /\ \E n \in 1..MaxAnyOrder : \E ds \in [1..n -> AnyOrderInputs] :
          /\ data = LoadedRecords(ds)
          /\ df = dropna(ParsedFrame(LoadedRecords(ds)))
    /\ seasons = <<>>
    /\ flags = <<>>
    /\ model_fit = FALSE
    /\ plot_json = None
    /\ error_message = None
    /\ warning_message = None
    /\ nodata_message = None
    /\ status = 0

\* line 126: `not non_zero_discharge.empty`
NonZeroPresent == Len(non_zero_discharge(Discharge(df))) > 0

\* lines 116-119
EvalSeasons ==
    /\ pc = "detectors"
    /\ seasons = <<>>
    /\ seasons' = SeasonColumns(df)
    /\ UNCHANGED <<pc, site_id, response, data, df, flags, model_fit, plot_json,
                   error_message, warning_message, nodata_message, status>>

\* lines 123-124
EvalNegativeZero ==
    /\ pc = "detectors"
    /\ "FLAG_NEGATIVE" \notin DOMAIN flags
    /\ flags' = SetColumn(SetColumn(flags, "FLAG_NEGATIVE", FLAG_NEGATIVE(Discharge(df))),
                          "FLAG_ZERO", FLAG_ZERO(Discharge(df)))
    /\ UNCHANGED <<pc, site_id, response, data, df, seasons, model_fit, plot_json,
                   error_message, warning_message, nodata_message, status>>

\* A detector of the branch of line 126, not yet run.
CanEval(name) == pc = "detectors" /\ NonZeroPresent /\ name \notin DOMAIN flags

\* lines 127-128
EvalPercentile ==
    /\ CanEval("FLAG_Discharge")
    /\ SetFlag("FLAG_Discharge", FLAG_Discharge(Discharge(df)), "detectors")
    /\ UNCHANGED model_fit

\* lines 129-131
EvalIQR ==
    /\ CanEval("FLAG_IQR")
    /\ SetFlag("FLAG_IQR", FLAG_IQR(Discharge(df)), "detectors")
    /\ UNCHANGED model_fit

\* lines 132-134
EvalRateOfChange ==
    /\ CanEval("FLAG_RoC")
    /\ SetFlag("FLAG_RoC", RateOfChangeColumn(flags, Discharge(df)), "detectors")
    /\ UNCHANGED model_fit

\* lines 135-136
EvalRepeated ==
    /\ CanEval("FLAG_REPEATED")
    /\ SetFlag("FLAG_REPEATED", FLAG_REPEATED(Discharge(df)), "detectors")
    /\ UNCHANGED model_fit

\* lines 137-139
EvalModel ==
    /\ CanEval("OUTLIER_IF")
    /\ IF FitsModel(Discharge(df))
       THEN \E predict \in Predictions(Discharge(df)) :
               /\ SetFlag("OUTLIER_IF", OUTLIER_IF(Discharge(df), predict), "detectors")
               /\ model_fit' = TRUE
       ELSE /\ SetFlag("OUTLIER_IF", AllFalse(Discharge(df)), "detectors")
            /\ UNCHANGED model_fit

\* lines 140-142
EvalRSD ==
    /\ CanEval("FLAG_RSD")
    /\ SetFlag("FLAG_RSD", FLAG_RSD(Discharge(df)), "detectors")
    /\ UNCHANGED model_fit

\* line 126, the else branch: on to line 143
EnterDefault ==
    /\ pc = "detectors"
    /\ ~NonZeroPresent
    /\ pc' = "default"
    /\ UNCHANGED <<site_id, response, data, df, seasons, flags, model_fit, plot_json,
                   error_message, warning_message, nodata_message, status>>

\* Every detector and the segmenter have run: on to the aggregation of line 144.
JoinDetectors ==
    /\ pc = "detectors"
    /\ seasons # <<>>
    /\ Range(flag_cols_to_check) \subseteq DOMAIN flags
    /\ pc' = "aggregate"
    /\ UNCHANGED <<site_id, response, data, df, seasons, flags, model_fit, plot_json,
                   error_message, warning_message, nodata_message, status>>

NextAnyOrder ==
    \/ EvalSeasons
    \/ EvalNegativeZero
    \/ EvalPercentile
    \/ EvalIQR
    \/ EvalRateOfChange
    \/ EvalRepeated
    \/ EvalModel
    \/ EvalRSD
    \/ EnterDefault
    \/ JoinDetectors
    \/ DefaultFlags
    \/ Aggregate
    \/ BuildPlot
    \/ Render

SpecAnyOrder == InitAnyOrder /\ [][NextAnyOrder]_vars

(***************************************************************************)
(* The whole handler, any statement of the processing block (lines 93-238) *)
(* raising an exception: a malformed record, a failure of the model's fit  *)
(* or of the plotting library.                                             *)
(***************************************************************************)
ProcessingPcs ==
    {"load", "segment", "sign_zero", "percentile", "iqr", "roc", "repeated", "model",
     "rsd", "default", "aggregate", "plot"}

\* lines 93-242: an exception raised inside the try block is caught on line 240
ProcessingFailure ==
    /\ pc \in ProcessingPcs
    /\ RaiseInProcessing("An error occurred during data processing or plot generation")
    /\ UNCHANGED <<site_id, response, data, df, seasons, flags, model_fit, plot_json,
                   warning_message, nodata_message, status>>

FetchFewData == FetchFrom(RawLists(RawRecords(DateInputs, ValueInputs), MaxRawFail))

NextFail == CheckSiteId \/ FetchFewData \/ LoadData \/ Process \/ ProcessingFailure

SpecFail == Init /\ [][NextFail]_vars

\* HTML_TEMPLATE, lines 32-45: the branch the template takes on its arguments
\* (an argument not passed, or None, is false; the messages are not empty)
TemplateBranch(error, warning, nodata, plot) ==
    IF error # None THEN "error"
    ELSE IF warning # None THEN "warning"
    ELSE IF nodata # None THEN "nodata"
    ELSE IF plot # None THEN "plot"
    ELSE "unknown"

(***************************************************************************)
(* The claims.                                                             *)
(***************************************************************************)
D == Discharge(df)

HasColumn(c) == c \in DOMAIN flags

\* The loader has run on a fetched record list.
Loaded == response = "ok" /\ pc \notin {"start", "fetch", "load"}

\* The handler has answered a request whose series kept at least one row.
AnsweredSeries == pc = "done" /\ response = "ok" /\ Len(df) > 0

NonZeroValues == {D[i] : i \in {j \in 1..Len(D) : D[j] # 0}}

NonZeroSubset == SelectSeq(D, LAMBDA x : x # 0)

\* The k-th smallest value of s, by counting.
OrderStatistic(s, k) ==
    CHOOSE v \in Range(s) :
        /\ Cardinality({j \in 1..Len(s) : s[j] < v}) < k
        /\ Cardinality({j \in 1..Len(s) : s[j] <= v}) >= k

\* den times the num/den quantile of s, interpolated linearly between the two
\* order statistics around position num*(n-1)/den.
InterpolatedQuantile(s, num, den) ==
    LET k == (num * (Len(s) - 1)) \div den
        g == (num * (Len(s) - 1)) % den
        below == OrderStatistic(s, k + 1)
        above == IF g = 0 THEN below ELSE OrderStatistic(s, k + 2)
    IN  den * below + g * (above - below)

\* C1: a series whose retained observations are all zero is answered with an
\* annotated series (no failure) in which ABOVE_95TH_PERCENTILE, IQR_OUTLIER,
\* RATE_OF_CHANGE_OUTLIER and MODEL_OUTLIER are false and ZERO is true for
\* every observation.
C1_AllZeroSeriesIsAnnotated ==
    (AnsweredSeries /\ \A i \in 1..Len(D) : D[i] = 0) =>
        /\ error_message = None
        /\ plot_json # None
        /\ {"FLAG_ZERO", "FLAG_Discharge", "FLAG_IQR", "FLAG_RoC", "OUTLIER_IF"}
               \subseteq DOMAIN flags
        /\ \A i \in 1..Len(D) :
              /\ flags["FLAG_ZERO"][i]
              /\ ~flags["FLAG_Discharge"][i]
              /\ ~flags["FLAG_IQR"][i]
              /\ ~flags["FLAG_RoC"][i]
              /\ ~flags["OUTLIER_IF"][i]

\* C2: REPEATED_RUN[i] is true exactly when discharge[i] is non-zero and i lies
\* in a run of at least 3 equal values adjacent in the full ordered sequence
\* (a zero between two equal values ends the run).
C2_RepeatedRunOverFullSequence ==
    HasColumn("FLAG_REPEATED") =>
        \A i \in 1..Len(D) :
            flags["FLAG_REPEATED"][i] <=>
                /\ D[i] # 0
                /\ \E a \in 1..i : \E b \in i..Len(D) :
                      /\ b - a + 1 >= 3
                      /\ \A j \in a..b : D[j] = D[i]

SevenFlags ==
    {"FLAG_NEGATIVE", "FLAG_ZERO", "FLAG_Discharge", "FLAG_IQR", "FLAG_RoC",
     "FLAG_REPEATED", "OUTLIER_IF"}

\* C3 as stated: ANY_FLAGGED[i] is true exactly when one of the seven named
\* flags is true at i.
C3_FlaggedIffAnyOfSeven ==
    HasColumn("FLAGGED") =>
        \A i \in 1..Len(D) : flags["FLAGGED"][i] <=> \E c \in SevenFlags : flags[c][i]

\* C3 as amended: FLAGGED[i] is true exactly when one of the eight flag columns
\* (the seven named ones and FLAG_RSD) is true at i.
C3_FlaggedIffAnyOfEight ==
    HasColumn("FLAGGED") =>
        /\ SevenFlags \cup {"FLAG_RSD"} \subseteq DOMAIN flags
        /\ \A i \in 1..Len(D) :
              flags["FLAGGED"][i] <=> \E c \in SevenFlags \cup {"FLAG_RSD"} : flags[c][i]

\* An answered series with an observation flagged by FLAG_RSD alone.
C3_FlaggedByRsdAlone ==
    /\ AnsweredSeries
    /\ HasColumn("FLAGGED")
    /\ \E i \in 1..Len(D) :
          /\ flags["FLAGGED"][i]
          /\ flags["FLAG_RSD"][i]
          /\ \A c \in SevenFlags : ~flags[c][i]

\* Every record of the list fails to parse in its date or in its value.
AllUnparsable(records) ==
    \A k \in 1..Len(records) :
        records[k].date.kind = "junk" \/ records[k].value.kind = "text"

\* C4: an empty record list, or one whose records all fail to parse, is
\* answered with the 'no data' outcome: no error, no plot, and no segmenter,
\* detector or aggregator step has run.
C4_NoDataOutcome ==
    (response = "ok" /\ pc # "load" /\ AllUnparsable(data)) =>
        /\ pc = "done"
        /\ nodata_message # None
        /\ error_message = None
        /\ plot_json = None
        /\ status = 200
        /\ seasons = <<>>
        /\ flags = <<>>
        /\ ~model_fit

\* A non-empty record list answered with 'no data'.
C4_AllRecordsDropped ==
    /\ pc = "done"
    /\ response = "ok"
    /\ Len(data) > 0
    /\ AllUnparsable(data)
    /\ nodata_message # None

\* The records whose date and value are both parsed to a valid timestamp and a
\* finite number.
ParsedFinite == {k \in 1..Len(data) : data[k].date.kind = "iso" /\ data[k].value.kind = "num"}

\* C5: after loading, a record is retained exactly when its date and its
\* value parsed (a value parsing to infinity counts as unparsable), every
\* retained observation has a valid timestamp and a finite discharge, and there
\* is one row per retained observation.
C5_RetainedIffParsedFinite ==
    Loaded =>
        /\ \A k \in 1..Len(data) : (\E i \in 1..Len(df) : df[i].raw = k) <=> k \in ParsedFinite
        /\ \A i \in 1..Len(df) : ~df[i].Date.nat /\ df[i].DISCHARGE.kind = "fin"
        /\ Len(df) = Cardinality(ParsedFinite)

Ascending == \A i, j \in 1..Len(df) : i < j => df[i].Date.t <= df[j].Date.t

\* The rows are the retained records, each once and unmodified.
PermutationOfRetained ==
    /\ \A i, j \in 1..Len(df) : i # j => df[i].raw # df[j].raw
    /\ {df[i].raw : i \in 1..Len(df)} =
           {k \in 1..Len(data) : data[k].date.kind = "iso" /\ data[k].value.kind # "text"}
    /\ \A i \in 1..Len(df) :
          /\ df[i].Date.t = data[df[i].raw].date.t
          /\ df[i].DISCHARGE.v = data[df[i].raw].value.v

\* C6 as stated: the loaded rows are the retained records in ascending order
\* of timestamp, and rows of equal timestamp keep their order of the raw input.
C6_StableAscendingSort ==
    Loaded =>
        /\ Ascending
        /\ PermutationOfRetained
        /\ \A i, j \in 1..Len(df) :
              (i < j /\ df[i].Date.t = df[j].Date.t) => df[i].raw < df[j].raw

\* C6 as amended: the loaded rows are the retained records, each once and
\* unmodified, in ascending order of timestamp.
C6_AscendingPermutation == Loaded => (Ascending /\ PermutationOfRetained)

\* The sort has moved a later record before an earlier one, with two rows of
\* equal timestamp in the frame.
C6_SortReordered ==
    /\ Loaded
    /\ \E i, j \in 1..Len(df) : i < j /\ df[i].raw > df[j].raw /\ df[i].Date.t < df[j].Date.t
    /\ \E i, j \in 1..Len(df) : i # j /\ df[i].Date.t = df[j].Date.t

\* C7: with fewer than 2 distinct non-zero values the model is not fitted and
\* MODEL_OUTLIER is false for every observation of the answered series; the
\* model is fitted only on at least 2 distinct non-zero values, and no
\* zero-valued observation is MODEL_OUTLIER.
C7_DegenerateSubsetNotModelled ==
    /\ (AnsweredSeries /\ Cardinality(NonZeroValues) < 2) =>
          /\ ~model_fit
          /\ HasColumn("OUTLIER_IF")
          /\ \A i \in 1..Len(D) : ~flags["OUTLIER_IF"][i]
    /\ model_fit => Cardinality(NonZeroValues) >= 2
    /\ HasColumn("OUTLIER_IF") => \A i \in 1..Len(D) : D[i] = 0 => ~flags["OUTLIER_IF"][i]

SomeFlagColumnMissing == \E c \in Range(flag_cols_to_check) : ~HasColumn(c)

C9_RateOfChangeRule ==
    HasColumn("FLAG_RoC") =>
        /\ Len(NonZeroSubset) > 0
        /\ LET p95_x100 == InterpolatedQuantile(NonZeroSubset, 95, 100)
           IN  \A i \in 1..Len(D) :
                  flags["FLAG_RoC"][i] <=>
                      /\ i > 1
                      /\ D[i] # 0
                      /\ 100 * Abs(D[i] - D[i - 1]) > p95_x100

\* An answered series with an observation flagged for its change from a
\* zero-valued predecessor, and a non-zero one not flagged.
C9_FlaggedAfterZero ==
    /\ AnsweredSeries
    /\ HasColumn("FLAG_RoC")
    /\ \E i \in 2..Len(D) : flags["FLAG_RoC"][i] /\ D[i - 1] = 0
    /\ \E i \in 2..Len(D) : ~flags["FLAG_RoC"][i] /\ D[i] # 0 /\ D[i] # D[i - 1]

ClaimQ1_x4 == InterpolatedQuantile(NonZeroSubset, 1, 4)

ClaimQ3_x4 == InterpolatedQuantile(NonZeroSubset, 3, 4)

\* C10: with Q1, Q3 the interpolated quartiles of the non-zero values and
\* IQR = Q3 - Q1: if IQR > 0, IQR_OUTLIER[i] is true exactly when discharge[i]
\* is non-zero and below Q1 - 1.5*IQR or above Q3 + 1.5*IQR; if IQR = 0, exactly
\* when discharge[i] is non-zero and differs from Q1; when all non-zero values
\* are equal, no observation is an IQR outlier.
C10_IqrRule ==
    HasColumn("FLAG_IQR") =>
        /\ Len(NonZeroSubset) > 0
        /\ LET q1 == ClaimQ1_x4
               q3 == ClaimQ3_x4
           IN  /\ q3 - q1 >= 0
               /\ \A i \in 1..Len(D) :
                     flags["FLAG_IQR"][i] <=>
                         IF q3 - q1 > 0
                         THEN /\ D[i] # 0
                              /\ \/ 8 * D[i] < 2 * q1 - 3 * (q3 - q1)
                                 \/ 8 * D[i] > 2 * q3 + 3 * (q3 - q1)
                         ELSE D[i] # 0 /\ 4 * D[i] # q1
        /\ Cardinality(NonZeroValues) = 1 => \A i \in 1..Len(D) : ~flags["FLAG_IQR"][i]

\* An answered series with IQR = 0 and an observation flagged for differing
\* from Q1.
C10_FlaggedWithZeroIqr ==
    /\ AnsweredSeries
    /\ HasColumn("FLAG_IQR")
    /\ ClaimQ3_x4 = ClaimQ1_x4
    /\ \E i \in 1..Len(D) : flags["FLAG_IQR"][i]

\* The value the code of a flag column's lines gives on the loaded series,
\* run in the order of the source.
SourceOrderColumn(c) ==
    CASE c = "FLAG_NEGATIVE" -> FLAG_NEGATIVE(D)
      [] c = "FLAG_ZERO" -> FLAG_ZERO(D)
      [] c = "FLAG_Discharge" -> FLAG_Discharge(D)
      [] c = "FLAG_IQR" -> FLAG_IQR(D)
      [] c = "FLAG_RoC" -> FLAG_RoC(D)
      [] c = "FLAG_REPEATED" -> FLAG_REPEATED(D)
      [] c = "FLAG_RSD" -> FLAG_RSD(D)

RuleFlags ==
    {"FLAG_NEGATIVE", "FLAG_ZERO", "FLAG_Discharge", "FLAG_IQR", "FLAG_RoC",
     "FLAG_REPEATED", "FLAG_RSD"}

\* The columns one step may add to the frame.
OwnFields ==
    {{}, {"FLAG_NEGATIVE", "FLAG_ZERO"}, {"FLAG_Discharge"}, {"FLAG_IQR"}, {"FLAG_RoC"},
     {"FLAG_REPEATED"}, {"OUTLIER_IF"}, {"FLAG_RSD"}, {"FLAGGED"}}

OutcomesSet ==
    Cardinality({k \in {"error", "nodata", "plot"} :
                    \/ k = "error" /\ error_message # None
                    \/ k = "nodata" /\ nodata_message # None
                    \/ k = "plot" /\ plot_json # None})

Rendered == TemplateBranch(error_message, warning_message, nodata_message, plot_json)

\* C12: at the point of rendering (the render of line 245 and the early
\* returns) exactly one of error_message, nodata_message and plot_json is set,
\* and the template shows that one: an error leaves plot_json unset, a plot
\* comes with no message, and the template's 'unknown issue' branch is never
\* taken.  Before rendering at most one of the three is set.
C12_ExactlyOneOutcome ==
    /\ OutcomesSet <= 1
    /\ warning_message = None
    /\ pc \in {"render", "done"} =>
          /\ OutcomesSet = 1
          /\ Rendered \in {"error", "nodata", "plot"}
          /\ Rendered = "error" <=> error_message # None
          /\ Rendered = "nodata" <=> nodata_message # None
          /\ Rendered = "plot" <=> plot_json # None
          /\ error_message # None => plot_json = None
          /\ plot_json # None => error_message = None /\ nodata_message = None
    /\ pc = "render" => nodata_message = None
    /\ pc = "done" => status \in {200, 400, 500, 502}

\* A call ended by a failure raised in processing a loaded series: rendered on
\* line 245 with the error and no plot.
C12_FailedInProcessing ==
    /\ pc = "done"
    /\ response = "ok"
    /\ Len(df) > 0
    /\ status = 200
    /\ error_message # None
    /\ plot_json = None
    /\ Rendered = "error"

====
